---------------------------- MODULE Spec2Model ----------------------------
(***************************************************************************)
(* A model of the cookies crate: the lenient parser (src/src/parse.rs),    *)
(* the strict builder (src/src/build.rs) and the validators they share.    *)
(*                                                                         *)
(* Text is modelled by TLA+ strings, which TLC treats as sequences of      *)
(* characters (Len, SubSeq and \o apply to them).  A byte is a string of   *)
(* length one.  Offsets are 0-based and half-open, as in the Rust code.    *)
(* Option<T> is a sequence of length at most one: <<>> is None, <<x>> is   *)
(* Some(x).                                                                *)
(***************************************************************************)
EXTENDS Integers, Sequences, FiniteSets, TLC

VARIABLES
    src,        \* parse: the source text handed to parse()
    pc,         \* parse: position inside parse()
    cookie,     \* parse: the Parsed record under construction
    attrs,      \* parse: the state of the `s.split(';')` iterator
    expires,    \* parse: the lazily captured Expires value (offsets), if any
    tm,         \* parse: the outcome of the strptime attempts, once made
    now,        \* parse: the reading of time::get_time(), once taken
    result,     \* parse: "Pending", "Ok" or the Error kind returned
    state,      \* builder: Builder.state, Result<C, Error>
    calls,      \* builder: the calls made on the builder so far, in order
    built,      \* builder: what build() returned, once called
    wrapped,    \* builder: the cookie given to Builder::wrap, if one was
    shown       \* display: the text written for the cookie and the clock it read

vars == <<src, pc, cookie, attrs, expires, tm, now, result, state, calls, built, wrapped,
         shown>>

parseVars == <<src, pc, cookie, attrs, expires, tm, now, result>>
buildVars == <<state, calls, built, wrapped>>

-----------------------------------------------------------------------------
(* Bytes *)

\* The printable ASCII bytes 0x20..0x5F and 0x61..0x7E, in code order (a
\* TLA+ string cannot hold 0x60, the backquote, which the model leaves out).
PrintableLo == " !\"#$%&'()*+,-./0123456789:;<=>?@ABCDEFGHIJKLMNOPQRSTUVWXYZ[\\]^_"
PrintableHi == "abcdefghijklmnopqrstuvwxyz{|}~"

\* The control bytes the model's texts use: HT, LF, CR.
Controls == {"\t", "\n", "\r"}

Char(s, i) == SubSeq(s, i, i)

Bytes ==
    {Char(PrintableLo, i) : i \in 1..Len(PrintableLo)}
        \cup {Char(PrintableHi, i) : i \in 1..Len(PrintableHi)}
        \cup Controls

\* The code of a byte.
OrdTable == [c \in Bytes |->
               IF c = "\t" THEN 9
               ELSE IF c = "\n" THEN 10
               ELSE IF c = "\r" THEN 13
               ELSE IF \E i \in 1..Len(PrintableLo) : Char(PrintableLo, i) = c
                    THEN 31 + (CHOOSE i \in 1..Len(PrintableLo) : Char(PrintableLo, i) = c)
                    ELSE 96 + (CHOOSE i \in 1..Len(PrintableHi) : Char(PrintableHi, i) = c)]

Ord(c) == OrdTable[c]

\* u8::to_ascii_lowercase
Lower(c) == IF Ord(c) \in 65..90 THEN Char(PrintableHi, Ord(c) + 32 - 96) ELSE c

\* str::eq_ignore_ascii_case
EqIgnoreCase(a, b) ==
    /\ Len(a) = Len(b)
    /\ \A i \in 1..Len(a) : Lower(Char(a, i)) = Lower(Char(b, i))

\* char::is_whitespace, on the bytes of the model
IsWhitespace(c) == c \in {" ", "\t", "\n", "\r"}

\* &s[a..b]
Slice(s, a, b) == SubSeq(s, a + 1, b)

SetMin(S) == CHOOSE x \in S : \A y \in S : x <= y
SetMax(S) == CHOOSE x \in S : \A y \in S : y <= x

\* str::find(c) on &s[a..b]: the offset in s of the first c, or -1.
FindIn(s, a, b, c) ==
    LET P == {i \in a..(b - 1) : Char(s, i + 1) = c}
    IN  IF P = {} THEN -1 ELSE SetMin(P)

\* str::trim on &s[a..b]: the offsets of the trimmed slice.  A slice of
\* whitespace only trims to the empty slice at its start.
Trim(s, a, b) ==
    LET P == {i \in a..(b - 1) : ~IsWhitespace(Char(s, i + 1))}
    IN  IF P = {} THEN <<a, a>> ELSE <<SetMin(P), SetMax(P) + 1>>

-----------------------------------------------------------------------------
(* Validators *)

Separators == {"(", ")", "<", ">", "@", ",", ";", ":", "\\", "\"", "/",
               "[", "]", "?", "=", "{", "}", " ", "\t"}

IsCtl(c) == Ord(c) \in 0..32 \/ Ord(c) = 127

\* validate_name: TRUE for Ok(()), FALSE for Err(InvalidName)
validate_name(n) ==
    /\ n # ""
    /\ \A i \in 1..Len(n) : Char(n, i) \notin Separators /\ ~IsCtl(Char(n, i))

IsCookieOctet(c) ==
    LET b == Ord(c)
    IN  \/ b = 33
        \/ b \in 35..43
        \/ b \in 45..58
        \/ b \in 60..91
        \/ b \in 93..126

\* validate_value: TRUE for Ok(()), FALSE for Err(InvalidValue)
validate_value(v) == \A i \in 1..Len(v) : IsCookieOctet(Char(v, i))

is_valid_path(p) ==
    /\ p # ""
    /\ Char(p, 1) = "/"
    /\ \A i \in 1..Len(p) : ~IsCtl(Char(p, i)) /\ Char(p, i) # ";"

\* validate_domain: "AsIs", "LeadingDot" or "Invalid"
validate_domain(d) ==
    IF d = "" THEN "Invalid"
    ELSE IF \E i \in 1..Len(d) : IsCtl(Char(d, i)) \/ Char(d, i) = ";" THEN "Invalid"
    ELSE IF Char(d, 1) = "." THEN "LeadingDot"
    ELSE "AsIs"

-----------------------------------------------------------------------------
(* Integers of the Rust code.  TLC's integers are 32 bits wide, so a 64-bit *)
(* quantity of seconds is kept as its canonical decimal text: "0", or       *)
(* digits without a leading zero.                                           *)

Digits == "0123456789"

IsDigit(c) == Ord(c) \in 48..57

DigitVal(c) == Ord(c) - 48

DigitChar(d) == Char(Digits, d + 1)

\* The decimal text without its leading zeros.
StripZeros(d) ==
    LET P == {i \in 1..Len(d) : Char(d, i) # "0"}
    IN  IF P = {} THEN "0" ELSE SubSeq(d, SetMin(P), Len(d))

\* a < b, for canonical decimal texts
DecLess(a, b) ==
    \/ Len(a) < Len(b)
    \/ /\ Len(a) = Len(b)
       /\ \E i \in 1..Len(a) :
            /\ DigitVal(Char(a, i)) < DigitVal(Char(b, i))
            /\ \A j \in 1..(i - 1) : Char(a, j) = Char(b, j)

RECURSIVE Dec(_)
\* The decimal text of a natural number.
Dec(n) == IF n < 10 THEN DigitChar(n) ELSE Dec(n \div 10) \o DigitChar(n % 10)

I64Max == "9223372036854775807"     \* i64::MAX
I64MinMag == "9223372036854775808"  \* -i64::MIN
U64Modulus == "18446744073709551616" \* 2^64

RECURSIVE SubDigits(_, _, _, _)
\* Digits 1..i of a - b, for decimal texts of one length with a >= b.
SubDigits(a, b, i, borrow) ==
    IF i = 0 THEN ""
    ELSE LET d == DigitVal(Char(a, i)) - DigitVal(Char(b, i)) - borrow
         IN  IF d < 0
             THEN SubDigits(a, b, i - 1, 1) \o DigitChar(d + 10)
             ELSE SubDigits(a, b, i - 1, 0) \o DigitChar(d)

\* a - b for canonical decimal texts, a >= b
DecSub(a, b) ==
    LET pad == SubSeq("00000000000000000000", 1, Len(a) - Len(b))
    IN  StripZeros(SubDigits(a, pad \o b, Len(a), 0))

\* str::parse::<i64>: an optional sign, then one or more digits, in range.
\* ok = FALSE is Err(ParseIntError); otherwise the value is -mag or mag.
ParseI64(t) ==
    LET signed == t # "" /\ Char(t, 1) \in {"+", "-"}
        digits == IF signed THEN SubSeq(t, 2, Len(t)) ELSE t
        neg    == signed /\ Char(t, 1) = "-"
        mag    == StripZeros(digits)
        wellFormed == digits # "" /\ \A i \in 1..Len(digits) : IsDigit(Char(digits, i))
        inRange == IF neg THEN ~DecLess(I64MinMag, mag) ELSE ~DecLess(I64Max, mag)
    IN  IF wellFormed /\ inRange
        THEN [ok |-> TRUE, neg |-> neg /\ mag # "0", mag |-> mag]
        ELSE [ok |-> FALSE, neg |-> FALSE, mag |-> "0"]

\* `secs as u64` for an i64: the value itself, or 2^64 - |secs| when negative.
AsU64(secs) == IF secs.neg THEN DecSub(U64Modulus, secs.mag) ELSE secs.mag

\* Duration::from_secs: a Duration is its number of seconds.
from_secs(n) == n

-----------------------------------------------------------------------------
(* The time crate, a collaborator outside this repository.  strptime is    *)
(* known on the dates below and fails on any other text.                   *)

RFC1123 == "%a, %d %b %Y %T %Z"
RFC850 == "%A, %d-%b-%y %T %Z"
ASCTIME == "%c"

DateTable ==
    { [text |-> "Tue, 21 May 2019 21:12:11 GMT", fmt |-> RFC1123, sec |-> 1558473131],
      [text |-> "Tuesday, 21-May-19 21:12:11 GMT", fmt |-> RFC850, sec |-> 1558473131],
      [text |-> "Tue May 21 21:12:11 2019", fmt |-> ASCTIME, sec |-> 1558473131],
      [text |-> "Thu, 01 Jan 1970 00:00:00 GMT", fmt |-> RFC1123, sec |-> 0],
      [text |-> "Wed, 31 Dec 1969 23:59:50 GMT", fmt |-> RFC1123, sec |-> -10] }

\* time::strptime(text, fmt) followed by Tm::to_timespec().sec
strptime(text, fmt) ==
    IF \E d \in DateTable : d.text = text /\ d.fmt = fmt
    THEN [ok |-> TRUE, sec |-> (CHOOSE d \in DateTable : d.text = text /\ d.fmt = fmt).sec]
    ELSE [ok |-> FALSE, sec |-> 0]

\* The readings time::get_time().sec may give: before, at and after the
\* dates of DateTable.  The wall clock does not read before the epoch.
Clock == {0, 1558473131, 1600000000}

-----------------------------------------------------------------------------
(* parse.rs: the Parsed cookie *)

MAX_LENGTH == 4096

U16Modulus == 65536

None == <<>>
Some(x) == <<x>>
Unwrap(o) == o[1]

\* indices(src, sub): the offsets of a sub-slice, each cast `as u16`
indices(sub) == <<sub[1] % U16Modulus, sub[2] % U16Modulus>>

\* indexed(s, i): &s[i.0..i.1]
indexed(s, i) == Slice(s, i[1], i[2])

\* The Parsed value parse() starts from.
NewParsed ==
    [ name |-> <<0, 0>>, value |-> <<0, 0>>, domain |-> None, path |-> None,
      max_age |-> None, secure |-> FALSE, http_only |-> FALSE, same_site |-> None ]

\* impl Cookie for Parsed: the accessors
ParsedName(s, c) == indexed(s, c.name)
ParsedValue(s, c) == indexed(s, c.value)
ParsedDomain(s, c) == IF c.domain = None THEN None ELSE Some(indexed(s, Unwrap(c.domain)))
ParsedPath(s, c) == IF c.path = None THEN None ELSE Some(indexed(s, Unwrap(c.path)))
ParsedSameSite(c) == c.same_site

\* s.split(';'): the iterator before its first next()
SplitInit == [pos |-> 0, finished |-> FALSE]

\* Split::next on an iterator that is not finished: the segment's offsets
SplitSegment(s, it) ==
    LET j == FindIn(s, it.pos, Len(s), ";")
    IN  IF j = -1 THEN <<it.pos, Len(s)>> ELSE <<it.pos, j>>

\* Split::next on an iterator that is not finished: the iterator afterwards
SplitAdvance(s, it) ==
    LET j == FindIn(s, it.pos, Len(s), ";")
    IN  IF j = -1 THEN [pos |-> Len(s), finished |-> TRUE]
                  ELSE [pos |-> j + 1, finished |-> FALSE]

\* NameValue with the value checked before the name
NameValueValueFirst(s, seg) ==
    LET i == FindIn(s, seg[1], seg[2], "=")
        n == Trim(s, seg[1], i)
        v == Trim(s, i + 1, seg[2])
    IN  IF i = -1 THEN [err |-> "InvalidName", name |-> <<0, 0>>, value |-> <<0, 0>>]
        ELSE IF ~validate_value(Slice(s, v[1], v[2]))
             THEN [err |-> "InvalidValue", name |-> <<0, 0>>, value |-> <<0, 0>>]
        ELSE IF ~validate_name(Slice(s, n[1], n[2]))
             THEN [err |-> "InvalidName", name |-> <<0, 0>>, value |-> <<0, 0>>]
        ELSE [err |-> "", name |-> indices(n), value |-> indices(v)]

\* NameValue with the value running to the end of the source, not of the
\* first segment
NameValueUnsplit(s, seg) ==
    LET i == FindIn(s, seg[1], seg[2], "=")
        n == Trim(s, seg[1], i)
        v == Trim(s, i + 1, Len(s))
    IN  IF i = -1 THEN [err |-> "InvalidName", name |-> <<0, 0>>, value |-> <<0, 0>>]
        ELSE IF ~validate_name(Slice(s, n[1], n[2]))
             THEN [err |-> "InvalidName", name |-> <<0, 0>>, value |-> <<0, 0>>]
        ELSE IF ~validate_value(Slice(s, v[1], v[2]))
             THEN [err |-> "InvalidValue", name |-> <<0, 0>>, value |-> <<0, 0>>]
        ELSE [err |-> "", name |-> indices(n), value |-> indices(v)]

\* The name=value segment: the error it raises ("" for none) and the
\* trimmed name and value slices.
NameValue(s, seg) ==
    LET i == FindIn(s, seg[1], seg[2], "=")
        n == Trim(s, seg[1], i)
        v == Trim(s, i + 1, seg[2])
    IN  IF i = -1 THEN [err |-> "InvalidName", name |-> <<0, 0>>, value |-> <<0, 0>>]
        ELSE IF ~validate_name(Slice(s, n[1], n[2]))
             THEN [err |-> "InvalidName", name |-> <<0, 0>>, value |-> <<0, 0>>]
        ELSE IF ~validate_value(Slice(s, v[1], v[2]))
             THEN [err |-> "InvalidValue", name |-> <<0, 0>>, value |-> <<0, 0>>]
        ELSE [err |-> "", name |-> indices(n), value |-> indices(v)]

\* An attribute segment split at its first '=': the trimmed name, and the
\* trimmed value if there is an '='.
AttrSplit(s, seg) ==
    LET i == FindIn(s, seg[1], seg[2], "=")
    IN  IF i = -1
        THEN [name |-> Trim(s, seg[1], seg[2]), value |-> None]
        ELSE [name |-> Trim(s, seg[1], i), value |-> Some(Trim(s, i + 1, seg[2]))]

\* MaxAgeAttr without the clamp of non-positive values
MaxAgeAttrNoClamp(s, c, v) ==
    LET secs == ParseI64(Slice(s, v[1], v[2]))
    IN  IF ~secs.ok THEN c
        ELSE [c EXCEPT !.max_age = Some(from_secs(AsU64(secs)))]

\* The Max-Age branch: the cookie after `Max-Age=<v>`
MaxAgeAttr(s, c, v) ==
    LET secs == ParseI64(Slice(s, v[1], v[2]))
    IN  IF ~secs.ok THEN c
        ELSE IF secs.neg \/ secs.mag = "0"
             THEN [c EXCEPT !.max_age = Some(from_secs("0"))]
             ELSE [c EXCEPT !.max_age = Some(from_secs(AsU64(secs)))]

\* PathAttr with an invalid value clearing the path
PathAttrClears(s, c, v) ==
    IF ~is_valid_path(Slice(s, v[1], v[2])) THEN [c EXCEPT !.path = None]
    ELSE [c EXCEPT !.path = Some(indices(v))]

\* The Path branch
PathAttr(s, c, v) ==
    IF ~is_valid_path(Slice(s, v[1], v[2])) THEN c
    ELSE [c EXCEPT !.path = Some(indices(v))]

\* DomainAttr keeping a leading dot
DomainAttrKeepsDot(s, c, v) ==
    LET d == validate_domain(Slice(s, v[1], v[2]))
    IN  IF d = "Invalid" THEN c ELSE [c EXCEPT !.domain = Some(indices(v))]

\* The Domain branch
DomainAttr(s, c, v) ==
    LET d == validate_domain(Slice(s, v[1], v[2]))
    IN  IF d = "AsIs" THEN [c EXCEPT !.domain = Some(indices(v))]
        ELSE IF d = "LeadingDot" THEN [c EXCEPT !.domain = Some(indices(<<v[1] + 1, v[2]>>))]
        ELSE c

\* SameSiteAttr taking an unrecognised value for Strict
SameSiteAttrUnknownStrict(s, c, v) ==
    IF EqIgnoreCase(Slice(s, v[1], v[2]), "lax") THEN [c EXCEPT !.same_site = Some("Lax")]
    ELSE [c EXCEPT !.same_site = Some("Strict")]

\* The SameSite branch
SameSiteAttr(s, c, v) ==
    IF EqIgnoreCase(Slice(s, v[1], v[2]), "lax") THEN [c EXCEPT !.same_site = Some("Lax")]
    ELSE IF EqIgnoreCase(Slice(s, v[1], v[2]), "strict") THEN [c EXCEPT !.same_site = Some("Strict")]
    ELSE c

\* The Expires branch: the value is captured, not parsed
ExpiresAttr(e, v) == Some(v)

\* Attr with Secure and HttpOnly recognised only when they carry no value
AttrFlagsNeedNoValue(s, seg, c, e) ==
    LET a == AttrSplit(s, seg)
        name == Slice(s, a.name[1], a.name[2])
    IN  IF a.value = None
        THEN IF EqIgnoreCase(name, "secure") THEN [cookie |-> [c EXCEPT !.secure = TRUE], expires |-> e]
             ELSE IF EqIgnoreCase(name, "httponly") THEN [cookie |-> [c EXCEPT !.http_only = TRUE], expires |-> e]
             ELSE [cookie |-> c, expires |-> e]
        ELSE LET v == Unwrap(a.value)
             IN  IF EqIgnoreCase(name, "max-age") THEN [cookie |-> MaxAgeAttr(s, c, v), expires |-> e]
                 ELSE IF EqIgnoreCase(name, "path") THEN [cookie |-> PathAttr(s, c, v), expires |-> e]
                 ELSE IF EqIgnoreCase(name, "domain") THEN [cookie |-> DomainAttr(s, c, v), expires |-> e]
                 ELSE IF EqIgnoreCase(name, "expires") THEN [cookie |-> c, expires |-> ExpiresAttr(e, v)]
                 ELSE IF EqIgnoreCase(name, "samesite") THEN [cookie |-> SameSiteAttr(s, c, v), expires |-> e]
                 ELSE [cookie |-> c, expires |-> e]

\* One turn of `for attr in attrs`: the cookie and the captured Expires
\* after the attribute segment seg.
Attr(s, seg, c, e) ==
    LET a == AttrSplit(s, seg)
        name == Slice(s, a.name[1], a.name[2])
    IN  IF EqIgnoreCase(name, "secure") THEN [cookie |-> [c EXCEPT !.secure = TRUE], expires |-> e]
        ELSE IF EqIgnoreCase(name, "httponly") THEN [cookie |-> [c EXCEPT !.http_only = TRUE], expires |-> e]
        ELSE IF a.value # None
        THEN LET v == Unwrap(a.value)
             IN  IF EqIgnoreCase(name, "max-age") THEN [cookie |-> MaxAgeAttr(s, c, v), expires |-> e]
                 ELSE IF EqIgnoreCase(name, "path") THEN [cookie |-> PathAttr(s, c, v), expires |-> e]
                 ELSE IF EqIgnoreCase(name, "domain") THEN [cookie |-> DomainAttr(s, c, v), expires |-> e]
                 ELSE IF EqIgnoreCase(name, "expires") THEN [cookie |-> c, expires |-> ExpiresAttr(e, v)]
                 ELSE IF EqIgnoreCase(name, "samesite") THEN [cookie |-> SameSiteAttr(s, c, v), expires |-> e]
                 ELSE [cookie |-> c, expires |-> e]
        ELSE [cookie |-> c, expires |-> e]

\* ExpiresConsulted without the look at max_age
ExpiresConsultedAlways(c, e) == e # None

\* Whether the Expires fallback runs: `if let (Some(expires), None) = ...`
ExpiresConsulted(c, e) == e # None /\ c.max_age = None

\* The three strptime attempts, the first success winning
ParseDate(text) ==
    LET a == strptime(text, RFC1123)
        b == strptime(text, RFC850)
        d == strptime(text, ASCTIME)
    IN  IF a.ok THEN a ELSE IF b.ok THEN b ELSE d

\* ExpiresMaxAge with the difference cast `as u64` unguarded
ExpiresMaxAgeUnguarded(d, t) ==
    IF d.sec >= t
    THEN Some(from_secs(Dec(d.sec - t)))
    ELSE Some(from_secs(DecSub(U64Modulus, Dec(t - d.sec))))

\* max_age from an Expires date that parsed, at clock reading t
ExpiresMaxAge(d, t) ==
    IF d.sec > t /\ d.sec > 0
    THEN Some(from_secs(Dec(d.sec - t)))
    ELSE Some(from_secs("0"))

RECURSIVE ParseLoop(_, _, _, _)
\* `for attr in attrs { ... }` from iterator state it to its end
ParseLoop(s, it, c, e) ==
    IF it.finished THEN [cookie |-> c, expires |-> e]
    ELSE LET r == Attr(s, SplitSegment(s, it), c, e)
         IN  ParseLoop(s, SplitAdvance(s, it), r.cookie, r.expires)

\* TooLong off by one
TooLongAtCap(s) == Len(s) >= MAX_LENGTH

\* `s.len() > MAX_LENGTH`
TooLong(s) == Len(s) > MAX_LENGTH

\* parse(s) as a whole, with the clock reading t: the result and the cookie
parse(s, t) ==
    IF TooLong(s) THEN [result |-> "TooLong", cookie |-> NewParsed]
    ELSE LET nv == NameValue(s, SplitSegment(s, SplitInit))
             r  == ParseLoop(s, SplitAdvance(s, SplitInit),
                             [NewParsed EXCEPT !.name = nv.name, !.value = nv.value], None)
             d  == ParseDate(indexed(s, Unwrap(r.expires)))
         IN  IF nv.err # "" THEN [result |-> nv.err, cookie |-> NewParsed]
             ELSE IF ExpiresConsulted(r.cookie, r.expires) /\ d.ok
                  THEN [result |-> "Ok",
                        cookie |-> [r.cookie EXCEPT !.max_age = ExpiresMaxAge(d, t)]]
                  ELSE [result |-> "Ok", cookie |-> r.cookie]

-----------------------------------------------------------------------------
(* build.rs: the Builder and the delegation chain it grows.  A cookie is   *)
(* the sequence of its wrappers, innermost first: the Pair, then one       *)
(* wrapper per successful step.                                            *)

Pair(n, v) == [kind |-> "Pair", name |-> n, text |-> v, flag |-> FALSE]
WithValue(v) == [kind |-> "WithValue", name |-> "", text |-> v, flag |-> FALSE]
WithPath(q) == [kind |-> "WithPath", name |-> "", text |-> q, flag |-> FALSE]
WithDomain(d) == [kind |-> "WithDomain", name |-> "", text |-> d, flag |-> FALSE]
WithMaxAge(d) == [kind |-> "WithMaxAge", name |-> "", text |-> d, flag |-> FALSE]
WithSecure(b) == [kind |-> "WithSecure", name |-> "", text |-> "", flag |-> b]
WithHttpOnly(b) == [kind |-> "WithHttpOnly", name |-> "", text |-> "", flag |-> b]

\* Result<C, Error>
Ok(ch) == [ok |-> TRUE, err |-> "", chain |-> ch]
Err(kind) == [ok |-> FALSE, err |-> kind, chain |-> <<>>]

\* Delegated answering with the innermost wrapper of the kind
DelegatedInnermost(ch, kind) ==
    IF {k \in 1..Len(ch) : ch[k].kind = kind} = {} THEN None
    ELSE Some(ch[SetMin({k \in 1..Len(ch) : ch[k].kind = kind})])

RECURSIVE Delegated(_, _)
\* The outermost wrapper of the given kind, if any: every other wrapper
\* forwards the accessor to the cookie it wraps.
Delegated(ch, kind) ==
    IF ch = <<>> THEN None
    ELSE IF ch[Len(ch)].kind = kind THEN Some(ch[Len(ch)])
    ELSE Delegated(SubSeq(ch, 1, Len(ch) - 1), kind)

\* A parsed cookie at the bottom of a chain: Parsed { src, .. }
ParsedCookie(s, c) == [kind |-> "Parsed", name |-> "", text |-> s, flag |-> FALSE, cookie |-> c]

\* Parsed as a Cookie of the trait: SameSite=Strict, SameSite=Lax
ParsedSameSiteStrict(c) == ParsedSameSite(c) = Some("Strict")
ParsedSameSiteLax(c) == ParsedSameSite(c) = Some("Lax")

\* impl Cookie for Pair and for Parsed: the accessors of the innermost cookie
BaseName(b) == IF b.kind = "Pair" THEN b.name ELSE ParsedName(b.text, b.cookie)
BaseValue(b) == IF b.kind = "Pair" THEN b.text ELSE ParsedValue(b.text, b.cookie)
BaseDomain(b) == IF b.kind = "Pair" THEN None ELSE ParsedDomain(b.text, b.cookie)
BasePath(b) == IF b.kind = "Pair" THEN None ELSE ParsedPath(b.text, b.cookie)
BaseMaxAge(b) == IF b.kind = "Pair" THEN None ELSE b.cookie.max_age
BaseHttpOnly(b) == IF b.kind = "Pair" THEN FALSE ELSE b.cookie.http_only
BaseSecure(b) == IF b.kind = "Pair" THEN FALSE ELSE b.cookie.secure
BaseSameSiteStrict(b) == IF b.kind = "Pair" THEN FALSE ELSE ParsedSameSiteStrict(b.cookie)
BaseSameSiteLax(b) == IF b.kind = "Pair" THEN FALSE ELSE ParsedSameSiteLax(b.cookie)

\* impl Cookie for Delegated<With...>: the accessors of a chain
BuiltName(ch) == BaseName(ch[1])
BuiltValue(ch) ==
    IF Delegated(ch, "WithValue") = None THEN BaseValue(ch[1])
    ELSE Unwrap(Delegated(ch, "WithValue")).text
BuiltPath(ch) ==
    IF Delegated(ch, "WithPath") = None THEN BasePath(ch[1])
    ELSE Some(Unwrap(Delegated(ch, "WithPath")).text)
BuiltDomain(ch) ==
    IF Delegated(ch, "WithDomain") = None THEN BaseDomain(ch[1])
    ELSE Some(Unwrap(Delegated(ch, "WithDomain")).text)
BuiltMaxAge(ch) ==
    IF Delegated(ch, "WithMaxAge") = None THEN BaseMaxAge(ch[1])
    ELSE Some(Unwrap(Delegated(ch, "WithMaxAge")).text)
BuiltSecure(ch) ==
    IF Delegated(ch, "WithSecure") = None THEN BaseSecure(ch[1])
    ELSE Unwrap(Delegated(ch, "WithSecure")).flag
BuiltHttpOnly(ch) ==
    IF Delegated(ch, "WithHttpOnly") = None THEN BaseHttpOnly(ch[1])
    ELSE Unwrap(Delegated(ch, "WithHttpOnly")).flag
BuiltSameSiteStrict(ch) == BaseSameSiteStrict(ch[1])
BuiltSameSiteLax(ch) == BaseSameSiteLax(ch[1])

\* Every accessor of the trait Cookie, on a chain
Accessors(ch) ==
    [name |-> BuiltName(ch), value |-> BuiltValue(ch), domain |-> BuiltDomain(ch),
     path |-> BuiltPath(ch), max_age |-> BuiltMaxAge(ch), http_only |-> BuiltHttpOnly(ch),
     secure |-> BuiltSecure(ch), same_site_strict |-> BuiltSameSiteStrict(ch),
     same_site_lax |-> BuiltSameSiteLax(ch)]

-----------------------------------------------------------------------------
(* util.rs: display, and the time crate's rendering of the Expires date *)

RECURSIVE DecValue(_)
\* The number a short decimal text denotes
DecValue(d) ==
    IF d = "" THEN 0 ELSE 10 * DecValue(SubSeq(d, 1, Len(d) - 1)) + DigitVal(Char(d, Len(d)))

\* The longest max_age whose Expires date is rendered: the seconds of the
\* date stay within TLC's integers
MaxRendered == "99999999"

Pad2(n) == IF n < 10 THEN "0" \o Dec(n) ELSE Dec(n)

DayNames == <<"Sun", "Mon", "Tue", "Wed", "Thu", "Fri", "Sat">>
MonthNames == <<"Jan", "Feb", "Mar", "Apr", "May", "Jun",
                "Jul", "Aug", "Sep", "Oct", "Nov", "Dec">>

\* time::at_utc(t).rfc822() for a time t of sec seconds since the epoch,
\* sec >= 0: the civil date of the day, the weekday, the time of day
rfc822(sec) ==
    LET days == sec \div 86400
        rem  == sec % 86400
        z    == days + 719468
        era  == z \div 146097
        doe  == z - era * 146097
        yoe  == (doe - doe \div 1460 + doe \div 36524 - doe \div 146096) \div 365
        doy  == doe - (365 * yoe + yoe \div 4 - yoe \div 100)
        mp   == (5 * doy + 2) \div 153
        d    == doy - (153 * mp + 2) \div 5 + 1
        m    == IF mp < 10 THEN mp + 3 ELSE mp - 9
        y    == yoe + era * 400 + (IF m <= 2 THEN 1 ELSE 0)
    IN  DayNames[((days + 4) % 7) + 1] \o ", " \o Pad2(d) \o " " \o MonthNames[m] \o " "
          \o Dec(y) \o " " \o Pad2(rem \div 3600) \o ":" \o Pad2((rem % 3600) \div 60)
          \o ":" \o Pad2(rem % 60) \o " GMT"

\* get_expires(dur), at clock reading t, for a duration the model renders
get_expires(dur, t) == t + DecValue(dur)

\* display with Secure written before HttpOnly
display_secure_first(c, t) ==
    c.name \o "=" \o c.value
      \o (IF c.path # None THEN "; Path=" \o Unwrap(c.path) ELSE "")
      \o (IF c.domain # None THEN "; Domain=" \o Unwrap(c.domain) ELSE "")
      \o (IF c.max_age # None
          THEN "; Max-Age=" \o Unwrap(c.max_age)
                 \o "; Expires=" \o rfc822(get_expires(Unwrap(c.max_age), t))
          ELSE "")
      \o (IF c.secure THEN "; Secure" ELSE "")
      \o (IF c.http_only THEN "; HttpOnly" ELSE "")
      \o (IF c.same_site_strict THEN "; SameSite=Strict"
          ELSE IF c.same_site_lax THEN "; SameSite=Lax" ELSE "")

\* display(cookie, f), for the cookie of accessors c, at clock reading t
display(c, t) ==
    c.name \o "=" \o c.value
      \o (IF c.path # None THEN "; Path=" \o Unwrap(c.path) ELSE "")
      \o (IF c.domain # None THEN "; Domain=" \o Unwrap(c.domain) ELSE "")
      \o (IF c.max_age # None
          THEN "; Max-Age=" \o Unwrap(c.max_age)
                 \o "; Expires=" \o rfc822(get_expires(Unwrap(c.max_age), t))
          ELSE "")
      \o (IF c.http_only THEN "; HttpOnly" ELSE "")
      \o (IF c.secure THEN "; Secure" ELSE "")
      \o (IF c.same_site_strict THEN "; SameSite=Strict"
          ELSE IF c.same_site_lax THEN "; SameSite=Lax" ELSE "")

\* The Expires date of the cookie is one the model renders
Renders(c) == c.max_age # None => ~DecLess(MaxRendered, Unwrap(c.max_age))

\* What to_string() leaves: the text, and the clock reading if one was taken
Shown(c, t) ==
    Some([text |-> display(c, t), at |-> IF c.max_age = None THEN None ELSE Some(t)])

\* wrap putting the cookie through the builder's validators
wrap_validating(ch) ==
    IF ~validate_name(BuiltName(ch)) THEN Err("InvalidName")
    ELSE IF ~validate_value(BuiltValue(ch)) THEN Err("InvalidValue")
    ELSE IF BuiltPath(ch) # None /\ ~is_valid_path(Unwrap(BuiltPath(ch))) THEN Err("InvalidPath")
    ELSE IF BuiltDomain(ch) # None /\ validate_domain(Unwrap(BuiltDomain(ch))) # "AsIs"
         THEN Err("InvalidDomain")
    ELSE Ok(ch)

\* Builder::wrap
wrap(ch) == Ok(ch)

\* Builder::new: the name is validated, then the value
NewState(n, v) ==
    IF ~validate_name(n) THEN Err("InvalidName")
    ELSE IF ~validate_value(v) THEN Err("InvalidValue")
    ELSE Ok(<<Pair(n, v)>>)

\* and_then without the short circuit: the step runs on a failed builder too
and_then_always(st, r) == r

\* Builder::and_then: r is what the step's closure returns on the cookie of
\* st; a failed builder keeps its error and the closure is not run.
and_then(st, r) == IF st.ok THEN r ELSE st

\* The closures of the steps, on the cookie ch
ValueStep(ch, v) ==
    IF validate_value(v) THEN Ok(Append(ch, WithValue(v))) ELSE Err("InvalidValue")

\* PathStep dropping an invalid path, as parse does
PathStepLenient(ch, q) ==
    IF is_valid_path(q) THEN Ok(Append(ch, WithPath(q))) ELSE Ok(ch)

PathStep(ch, q) ==
    IF is_valid_path(q) THEN Ok(Append(ch, WithPath(q))) ELSE Err("InvalidPath")

DomainStep(ch, d) ==
    IF validate_domain(d) = "AsIs" THEN Ok(Append(ch, WithDomain(d)))
    ELSE Err("InvalidDomain")

MaxAgeStep(ch, d) == Ok(Append(ch, WithMaxAge(d)))

SecureStep(ch, b) == Ok(Append(ch, WithSecure(b)))

HttpOnlyStep(ch, b) == Ok(Append(ch, WithHttpOnly(b)))

-----------------------------------------------------------------------------
(* The sources parse() is run on *)

\* The longest attribute list appended to a well-formed name=value pair.
MaxAttrs == 2

\* name=value segments of every kind: well-formed, trimmed, no '=', an
\* empty or invalid name, an invalid value, both invalid, an empty value,
\* a second '=', nothing at all
Pairs == {"n=v", " foo = bar ", "novalue", "=bar", "f()=bar", "foo=b r", "f()=b r",
          "n=", "a=b=c", ""}

\* Attribute segments, as they stand between two ';'
AttrPool ==
    { " Path=/a", " path = /b ", " Path=bogus",
      " Domain=x.y", " DOMAIN=.x.y", " Domain=.", " Domain",
      " Max-Age=3", " max-age=-3", " Max-Age=wat",
      " Max-Age=9223372036854775808",
      " Expires=Tue, 21 May 2019 21:12:11 GMT",
      " expires=Tuesday, 21-May-19 21:12:11 GMT",
      " Expires=bogus",
      " SameSite=Lax", " samesite=STRICT", " SameSite=wat",
      " Secure", " HttpOnly", " secure=wat",
      "" }

\* Further attribute segments, met in sources of a single attribute
EdgePool ==
    { " Path=", " Path", "Path=/c", " Domain=a b", " Domain=",
      " Max-Age=0", " Max-Age=+7", " Max-Age=-0", " Max-Age", " Max-Age=",
      " Max-Age=9223372036854775807", " Max-Age=-9223372036854775808",
      " Expires=Tue May 21 21:12:11 2019",
      " Expires=Wed, 31 Dec 1969 23:59:50 GMT", " Expires=", " Expires",
      " SameSite", " SameSite=", " SECURE ", " httponly=wat", " foo=bar",
      " Domain=.x.y", " SameSite=Strict" }

\* The lists of at most n segments of the pool P
AttrLists(P, n) == UNION {[1..k -> P] : k \in 0..n}

RECURSIVE Join(_, _, _)
\* The pair followed by segments 1..k of as, each after a ';'
Join(nv, as, k) == IF k = 0 THEN nv ELSE Join(nv, as, k - 1) \o ";" \o as[k]

RECURSIVE Spaces(_)
\* n spaces
Spaces(n) ==
    IF n = 0 THEN ""
    ELSE IF n % 2 = 1 THEN Spaces(n - 1) \o " "
    ELSE LET h == Spaces(n \div 2) IN h \o h

\* s padded with trailing spaces to n bytes
PadTo(s, n) == s \o Spaces(n - Len(s))

\* Sources at and around the length cap
LongSources ==
    {PadTo(s, n) : s \in {"n=v; Path=/a;", "novalue", "f()=b r; Domain=x.y"},
                   n \in {MAX_LENGTH - 1, MAX_LENGTH, MAX_LENGTH + 1}}

Sources ==
    {Join("n=v", as, Len(as)) : as \in AttrLists(AttrPool, MaxAttrs)}
        \cup {Join(nv, as, Len(as)) : nv \in Pairs, as \in AttrLists(AttrPool \cup EdgePool, 1)}
        \cup LongSources

-----------------------------------------------------------------------------
(* parse(): one action per step of the function *)

BuilderIdle == /\ state = [ok |-> FALSE, err |-> "", chain |-> <<>>]
               /\ calls = <<>>
               /\ built = None
               /\ wrapped = None

InitParse ==
    /\ src \in Sources
    /\ pc = "start"
    /\ cookie = NewParsed
    /\ attrs = SplitInit
    /\ expires = None
    /\ tm = None
    /\ now = None
    /\ result = "Pending"
    /\ BuilderIdle
    /\ shown = None

\* `if s.len() > MAX_LENGTH { return Err(Error::too_long()) }`
ParseLength ==
    /\ pc = "start"
    /\ IF TooLong(src)
       THEN /\ result' = "TooLong"
            /\ pc' = "done"
       ELSE /\ pc' = "name_value"
            /\ UNCHANGED result
    /\ UNCHANGED <<src, cookie, attrs, expires, tm, now>>
    /\ UNCHANGED <<buildVars, shown>>

\* `attrs.next()` and the match on `name_value.find('=')`
ParseNameValue ==
    /\ pc = "name_value"
    /\ LET nv == NameValue(src, SplitSegment(src, attrs))
       IN  IF nv.err # ""
           THEN /\ result' = nv.err
                /\ pc' = "done"
                /\ UNCHANGED cookie
           ELSE /\ cookie' = [cookie EXCEPT !.name = nv.name, !.value = nv.value]
                /\ pc' = "attrs"
                /\ UNCHANGED result
    /\ attrs' = SplitAdvance(src, attrs)
    /\ UNCHANGED <<src, expires, tm, now>>
    /\ UNCHANGED <<buildVars, shown>>

\* One turn of `for attr in attrs`
ParseAttr ==
    /\ pc = "attrs"
    /\ ~attrs.finished
    /\ LET r == Attr(src, SplitSegment(src, attrs), cookie, expires)
       IN  /\ cookie' = r.cookie
           /\ expires' = r.expires
    /\ attrs' = SplitAdvance(src, attrs)
    /\ UNCHANGED <<src, pc, tm, now, result>>
    /\ UNCHANGED <<buildVars, shown>>

\* After the loop: the Expires fallback, then `Ok(cookie)`
ParseExpires ==
    /\ pc = "attrs"
    /\ attrs.finished
    /\ IF ExpiresConsulted(cookie, expires)
       THEN LET d == ParseDate(indexed(src, Unwrap(expires)))
            IN  /\ tm' = Some(d)
                /\ IF d.ok
                   THEN \E t \in Clock :
                          /\ now' = Some(t)
                          /\ cookie' = [cookie EXCEPT !.max_age = ExpiresMaxAge(d, t)]
                   ELSE UNCHANGED <<now, cookie>>
       ELSE UNCHANGED <<tm, now, cookie>>
    /\ result' = "Ok"
    /\ pc' = "done"
    /\ UNCHANGED <<src, attrs, expires>>
    /\ UNCHANGED <<buildVars, shown>>

\* to_string() on the parsed cookie
ParseDisplay(t) ==
    /\ pc = "done"
    /\ result = "Ok"
    /\ shown = None
    /\ Renders(Accessors(<<ParsedCookie(src, cookie)>>))
    /\ shown' = Shown(Accessors(<<ParsedCookie(src, cookie)>>), t)
    /\ UNCHANGED <<parseVars, buildVars>>

NextParse ==
    \/ ParseLength
    \/ ParseNameValue
    \/ ParseAttr
    \/ ParseExpires
    \/ \E t \in Clock : ParseDisplay(t)

SpecParse == InitParse /\ [][NextParse]_vars

-----------------------------------------------------------------------------
(* The Builder: one action per method *)

\* The most steps chained between Builder::new and build()
MaxSteps == 2

NewNames == {"n", "", "a=b"}
NewValues == {"v", "b r"}
ValueArgs == {"w", "a,b"}
PathArgs == {"/a", "/b", "bad-path", ""}
DomainArgs == {"x.y", "z", ".x.y", ""}
MaxAgeArgs == {"0", "10"}

Call(op, n, v, b) == [op |-> op, name |-> n, text |-> v, flag |-> b]

ParseIdle ==
    /\ src = ""
    /\ pc = "idle"
    /\ cookie = NewParsed
    /\ attrs = SplitInit
    /\ expires = None
    /\ tm = None
    /\ now = None
    /\ result = "Pending"

InitBuild == ParseIdle /\ BuilderIdle /\ shown = None

\* The builder exists, is not consumed, and may take one more step
CanStep == calls # <<>> /\ built = None /\ Len(calls) <= MaxSteps

BuilderNew(n, v) ==
    /\ calls = <<>>
    /\ state' = NewState(n, v)
    /\ calls' = <<Call("new", n, v, FALSE)>>
    /\ UNCHANGED <<built, wrapped>>
    /\ UNCHANGED <<parseVars, shown>>

BuilderValue(v) ==
    /\ CanStep
    /\ state' = and_then(state, ValueStep(state.chain, v))
    /\ calls' = Append(calls, Call("value", "", v, FALSE))
    /\ UNCHANGED <<built, wrapped>>
    /\ UNCHANGED <<parseVars, shown>>

BuilderPath(q) ==
    /\ CanStep
    /\ state' = and_then(state, PathStep(state.chain, q))
    /\ calls' = Append(calls, Call("path", "", q, FALSE))
    /\ UNCHANGED <<built, wrapped>>
    /\ UNCHANGED <<parseVars, shown>>

BuilderDomain(d) ==
    /\ CanStep
    /\ state' = and_then(state, DomainStep(state.chain, d))
    /\ calls' = Append(calls, Call("domain", "", d, FALSE))
    /\ UNCHANGED <<built, wrapped>>
    /\ UNCHANGED <<parseVars, shown>>

BuilderMaxAge(d) ==
    /\ CanStep
    /\ state' = and_then(state, MaxAgeStep(state.chain, d))
    /\ calls' = Append(calls, Call("max_age", "", d, FALSE))
    /\ UNCHANGED <<built, wrapped>>
    /\ UNCHANGED <<parseVars, shown>>

BuilderSecure(b) ==
    /\ CanStep
    /\ state' = and_then(state, SecureStep(state.chain, b))
    /\ calls' = Append(calls, Call("secure", "", "", b))
    /\ UNCHANGED <<built, wrapped>>
    /\ UNCHANGED <<parseVars, shown>>

BuilderHttpOnly(b) ==
    /\ CanStep
    /\ state' = and_then(state, HttpOnlyStep(state.chain, b))
    /\ calls' = Append(calls, Call("http_only", "", "", b))
    /\ UNCHANGED <<built, wrapped>>
    /\ UNCHANGED <<parseVars, shown>>

\* The sources whose parsed cookies are given to Builder::wrap
WrapSources ==
    {"foo=bar; Path=/index.html; Domain=hyper.rs; HttpOnly; Secure; SameSite=Strict",
     "n=v; Max-Age=3; SameSite=Lax", "n=v; Domain=."}

\* Builder::wrap on the cookie c
BuilderWrap(c) ==
    /\ state' = wrap(c)
    /\ calls' = Append(calls, Call("wrap", "", "", FALSE))
    /\ wrapped' = Some(c)
    /\ built' = None
    /\ UNCHANGED <<parseVars, shown>>

\* Builder::wrap on a parsed cookie
WrapParsed(s) ==
    /\ calls = <<>>
    /\ parse(s, 0).result = "Ok"
    /\ BuilderWrap(<<ParsedCookie(s, parse(s, 0).cookie)>>)

\* Builder::wrap on the cookie build() returned
WrapBuilt ==
    /\ built # None
    /\ Unwrap(built).ok
    /\ wrapped = None
    /\ BuilderWrap(Unwrap(built).chain)

\* Builder::build: the builder is consumed and its state returned
BuilderBuild ==
    /\ calls # <<>>
    /\ built = None
    /\ built' = Some(state)
    /\ UNCHANGED <<state, calls, wrapped>>
    /\ UNCHANGED <<parseVars, shown>>

\* to_string() on the cookie build() returned
BuilderDisplay(t) ==
    /\ built # None
    /\ Unwrap(built).ok
    /\ shown = None
    /\ Renders(Accessors(Unwrap(built).chain))
    /\ shown' = Shown(Accessors(Unwrap(built).chain), t)
    /\ UNCHANGED <<parseVars, buildVars>>

NextBuild ==
    \/ \E n \in NewNames, v \in NewValues : BuilderNew(n, v)
    \/ \E v \in ValueArgs : BuilderValue(v)
    \/ \E q \in PathArgs : BuilderPath(q)
    \/ \E d \in DomainArgs : BuilderDomain(d)
    \/ \E d \in MaxAgeArgs : BuilderMaxAge(d)
    \/ \E b \in BOOLEAN : BuilderSecure(b)
    \/ \E b \in BOOLEAN : BuilderHttpOnly(b)
    \/ \E s \in WrapSources : WrapParsed(s)
    \/ WrapBuilt
    \/ BuilderBuild
    \/ \E t \in Clock : BuilderDisplay(t)

SpecBuild == InitBuild /\ [][NextBuild]_vars

-----------------------------------------------------------------------------
(* The same text given to the builder and to parse() *)

StrictPaths == {"/a", "/index.html", "bad-path", "", "/hello\nwat", " /a", "/x;y", "a/b"}
StrictDomains == {"x.y", ".x.y", ".", "", "hyper\nrs", " x.y", "x;y"}

InitStrict ==
    /\ src \in {"n=v; Path=" \o q : q \in StrictPaths}
                 \cup {"n=v; Domain=" \o d : d \in StrictDomains}
    /\ pc = "start"
    /\ cookie = NewParsed
    /\ attrs = SplitInit
    /\ expires = None
    /\ tm = None
    /\ now = None
    /\ result = "Pending"
    /\ BuilderIdle
    /\ shown = None

StrictNew == BuilderNew("n", "v")

\* Builder::path with the text of the source's Path attribute
StrictPath ==
    /\ Len(calls) = 1
    /\ \E q \in StrictPaths : src = "n=v; Path=" \o q /\ BuilderPath(q)

\* Builder::domain with the text of the source's Domain attribute
StrictDomain ==
    /\ Len(calls) = 1
    /\ \E d \in StrictDomains : src = "n=v; Domain=" \o d /\ BuilderDomain(d)

StrictBuild == Len(calls) = 2 /\ BuilderBuild

NextStrict ==
    \/ ParseLength
    \/ ParseNameValue
    \/ ParseAttr
    \/ ParseExpires
    \/ StrictNew
    \/ StrictPath
    \/ StrictDomain
    \/ StrictBuild

SpecStrict == InitStrict /\ [][NextStrict]_vars

-----------------------------------------------------------------------------
(* Reading a source as the specification describes it: the text between   *)
(* two ';' is a segment, segment 1 is the name=value pair, segments 2..    *)
(* are attribute occurrences.                                              *)

SemiPos(s) == {i \in 1..Len(s) : Char(s, i) = ";"}

\* The positions of the ';' of s in increasing order, from the set P of them
SemiSeq(P) ==
    [k \in 1..Cardinality(P) |-> CHOOSE q \in P : Cardinality({r \in P : r < q}) = k - 1]

HasEq(g) == \E i \in 1..Len(g) : Char(g, i) = "="

EqPos(g) == SetMin({i \in 1..Len(g) : Char(g, i) = "="})

Trimmed(g) == LET r == Trim(g, 0, Len(g)) IN Slice(g, r[1], r[2])

\* The trimmed text before the first '=' of a segment (all of it if none)
NameOf(g) == IF HasEq(g) THEN Trimmed(SubSeq(g, 1, EqPos(g) - 1)) ELSE Trimmed(g)

\* The offsets, in a segment with an '=', of the trimmed text after it
ValueSpan(g) == Trim(g, EqPos(g), Len(g))

\* The trimmed text after the first '=' of a segment ("" if there is none)
ValueOf(g) == IF HasEq(g) THEN Slice(g, ValueSpan(g)[1], ValueSpan(g)[2]) ELSE ""

\* The segments of s, in order: for each its text, its trimmed name, whether
\* it has an '=', its trimmed value, and the offsets in s of that value
Occurrences(s) ==
    LET semi == SemiSeq(SemiPos(s))
        n    == Len(semi) + 1
    IN  [k \in 1..n |->
            LET from == IF k = 1 THEN 0 ELSE semi[k - 1]
                to   == IF k = n THEN Len(s) ELSE semi[k] - 1
                g    == Slice(s, from, to)
            IN  [text |-> g, name |-> NameOf(g), has |-> HasEq(g), value |-> ValueOf(g),
                 span |-> IF HasEq(g)
                          THEN <<from + ValueSpan(g)[1], from + ValueSpan(g)[2]>>
                          ELSE <<from, from>>]]

\* The attribute occurrences named nm that carry a value
Occs(occ, nm) == {k \in 2..Len(occ) : occ[k].has /\ EqIgnoreCase(occ[k].name, nm)}

\* The occurrences that pass their attribute's own validity check
ValidPaths(occ) == {k \in Occs(occ, "path") : is_valid_path(occ[k].value)}
ValidDomains(occ) == {k \in Occs(occ, "domain") : validate_domain(occ[k].value) # "Invalid"}
ValidMaxAges(occ) == {k \in Occs(occ, "max-age") : ParseI64(occ[k].value).ok}
ValidSameSites(occ) ==
    {k \in Occs(occ, "samesite") :
        EqIgnoreCase(occ[k].value, "lax") \/ EqIgnoreCase(occ[k].value, "strict")}

\* Occurrences named nm of any shape, value-less ones included
AnyOccs(occ, nm) == {k \in 2..Len(occ) : EqIgnoreCase(occ[k].name, nm)}

\* The value of the last occurrence among the non-empty set V
LastValue(occ, V) == occ[SetMax(V)].value

\* The domain an occurrence's value gives: the value less one leading dot
DomainGiven(v) == IF Char(v, 1) = "." THEN SubSeq(v, 2, Len(v)) ELSE v

\* The seconds a Max-Age value gives: the integer, or zero if not positive
MaxAgeGiven(v) ==
    LET n == ParseI64(v) IN IF n.neg \/ n.mag = "0" THEN "0" ELSE n.mag

SameSiteGiven(v) == IF EqIgnoreCase(v, "lax") THEN "Lax" ELSE "Strict"

\* The captured Expires value, that of the last Expires occurrence, parses
ExpiresParses(occ) ==
    Occs(occ, "expires") # {} /\ ParseDate(LastValue(occ, Occs(occ, "expires"))).ok

ParsedOk == pc = "done" /\ result = "Ok"

-----------------------------------------------------------------------------
(* Claims about parse() *)

\* Last-valid-wins for Path, Domain and SameSite: the parsed attribute is
\* what the last valid occurrence gives, and is absent iff none is valid.
LastValidWins3(s, c, occ) ==
    /\ IF ValidPaths(occ) = {} THEN ParsedPath(s, c) = None
       ELSE ParsedPath(s, c) = Some(LastValue(occ, ValidPaths(occ)))
    /\ IF ValidDomains(occ) = {} THEN ParsedDomain(s, c) = None
       ELSE ParsedDomain(s, c) = Some(DomainGiven(LastValue(occ, ValidDomains(occ))))
    /\ IF ValidSameSites(occ) = {} THEN c.same_site = None
       ELSE c.same_site = Some(SameSiteGiven(LastValue(occ, ValidSameSites(occ))))

\* C1 as stated: last-valid-wins for Path, Domain, Max-Age and SameSite,
\* each attribute absent if and only if no occurrence of it is valid.
C1_AsStated ==
    ParsedOk =>
        LET occ == Occurrences(src)
        IN  /\ LastValidWins3(src, cookie, occ)
            /\ IF ValidMaxAges(occ) = {} THEN cookie.max_age = None
               ELSE cookie.max_age = Some(MaxAgeGiven(LastValue(occ, ValidMaxAges(occ))))

\* C1, amended: last-valid-wins for Path, Domain, Max-Age and SameSite; Path,
\* Domain and SameSite are absent iff no occurrence is valid, and max_age is
\* absent iff no Max-Age occurrence is valid and the captured Expires value
\* does not parse as a date.
C1_LastValidWins ==
    ParsedOk =>
        LET occ == Occurrences(src)
        IN  /\ LastValidWins3(src, cookie, occ)
            /\ IF ValidMaxAges(occ) = {}
               THEN (cookie.max_age = None <=> ~ExpiresParses(occ))
               ELSE cookie.max_age = Some(MaxAgeGiven(LastValue(occ, ValidMaxAges(occ))))

\* A parse in which a valid occurrence of Path is followed by an invalid or
\* value-less one, and the path is present.
C1_Witness ==
    /\ ParsedOk
    /\ LET occ == Occurrences(src)
       IN  /\ ValidPaths(occ) # {}
           /\ \E k \in AnyOccs(occ, "path") \ ValidPaths(occ) : k > SetMax(ValidPaths(occ))
    /\ cookie.path # None

\* The source without its Expires attribute segments: segments 1..k of occ
\* that are not one, joined by ';'
RECURSIVE WithoutExpires(_, _)
WithoutExpires(occ, k) ==
    IF k = 1 THEN occ[1].text
    ELSE IF EqIgnoreCase(occ[k].name, "expires") THEN WithoutExpires(occ, k - 1)
    ELSE WithoutExpires(occ, k - 1) \o ";" \o occ[k].text

\* C2, amended: Expires is consulted only once the whole list is scanned and
\* no Max-Age was applied; with a Max-Age whose value parses as a 64-bit
\* signed integer anywhere in the list, Expires is not consulted, the clock
\* is not read, and max_age is that of the same source with every Expires
\* attribute removed.
C2_MaxAgePrecedence ==
    /\ tm # None => pc = "done" /\ attrs.finished /\ ValidMaxAges(Occurrences(src)) = {}
    /\ ParsedOk =>
         LET occ == Occurrences(src)
         IN  ValidMaxAges(occ) # {} =>
               /\ tm = None
               /\ now = None
               /\ \A t \in Clock :
                    cookie.max_age = parse(WithoutExpires(occ, Len(occ)), t).cookie.max_age

\* The Max-Age occurrences whose value is an integer numeral of any size:
\* an optional sign and one or more digits
IntegerMaxAges(occ) ==
    {k \in Occs(occ, "max-age") :
        LET v == occ[k].value
            d == IF v # "" /\ Char(v, 1) \in {"+", "-"} THEN SubSeq(v, 2, Len(v)) ELSE v
        IN  d # "" /\ \A i \in 1..Len(d) : IsDigit(Char(d, i))}

\* C2 as stated: with a Max-Age of any integer value anywhere in the list,
\* Expires is not consulted and max_age is that of the same source with
\* every Expires attribute removed.
C2_AsStated ==
    ParsedOk =>
        LET occ == Occurrences(src)
        IN  IntegerMaxAges(occ) # {} =>
              /\ tm = None
              /\ \A t \in Clock :
                   cookie.max_age = parse(WithoutExpires(occ, Len(occ)), t).cookie.max_age

\* A parse of a source with a valid Max-Age and, after it, an Expires whose
\* date parses.
C2_Witness ==
    /\ ParsedOk
    /\ LET occ == Occurrences(src)
       IN  /\ ValidMaxAges(occ) # {}
           /\ \E k \in Occs(occ, "expires") :
                ParseDate(occ[k].value).ok /\ k > SetMax(ValidMaxAges(occ))
    /\ cookie.max_age # None

\* The first segment is a valid name=value pair.
FirstPairValid(occ) ==
    occ[1].has /\ validate_name(occ[1].name) /\ validate_value(occ[1].value)

\* C5: parse returns only Ok, TooLong, InvalidName or InvalidValue, and
\* returns Ok for every source within the length cap whose first segment is
\* a valid name=value pair, whatever its attribute segments are.
C5_OptionalNeverSurfaces ==
    /\ result \in {"Pending", "Ok", "TooLong", "InvalidName", "InvalidValue"}
    /\ pc = "done" /\ Len(src) <= MAX_LENGTH /\ FirstPairValid(Occurrences(src))
         => result = "Ok"

\* A successful parse of a source with an invalid Path and an invalid or
\* value-less Domain.
C5_Witness ==
    /\ ParsedOk
    /\ LET occ == Occurrences(src)
       IN  /\ AnyOccs(occ, "path") \ ValidPaths(occ) # {}
           /\ AnyOccs(occ, "domain") \ ValidDomains(occ) # {}

\* C6: within the length cap, a first segment without '=' gives InvalidName,
\* an invalid name gives InvalidName whatever the value is, and InvalidValue
\* is returned exactly when the name is valid and the value is not.
C6_NameBeforeValue ==
    pc = "done" /\ Len(src) <= MAX_LENGTH =>
        LET f == Occurrences(src)[1]
        IN  /\ ~f.has => result = "InvalidName"
            /\ f.has /\ ~validate_name(f.name) => result = "InvalidName"
            /\ result = "InvalidValue" <=>
                 f.has /\ validate_name(f.name) /\ ~validate_value(f.value)

\* A parse that returned InvalidName for a pair whose name and value are
\* both invalid.
C6_Witness ==
    /\ pc = "done"
    /\ result = "InvalidName"
    /\ LET f == Occurrences(src)[1]
       IN  f.has /\ ~validate_name(f.name) /\ ~validate_value(f.value)

\* C7: parse returns TooLong exactly for the sources longer than 4096 bytes,
\* whatever they hold, and then before anything of the source is examined.
C7_LengthCap ==
    pc = "done" =>
        /\ result = "TooLong" <=> Len(src) > MAX_LENGTH
        /\ result = "TooLong" => cookie = NewParsed /\ attrs = SplitInit

\* A parse that returned TooLong for a source whose first segment has no '='.
C7_Witness ==
    /\ pc = "done"
    /\ result = "TooLong"
    /\ \A i \in 1..Len(src) : Char(src, i) # "="

NonNegative(x) == IF x > 0 THEN x ELSE 0

IsSeconds(d) ==
    /\ d # ""
    /\ \A i \in 1..Len(d) : IsDigit(Char(d, i))
    /\ Len(d) > 1 => Char(d, 1) # "0"
    /\ ~DecLess(I64Max, d)

\* C10: a Max-Age value that is a 64-bit signed integer n gives max_age = n
\* seconds if n > 0 and zero seconds if n <= 0; a parsed max_age is never
\* negative nor the wrapped image of a negative number.
C10_MaxAgeValue ==
    ParsedOk =>
        LET occ == Occurrences(src)
            n   == ParseI64(LastValue(occ, ValidMaxAges(occ)))
        IN  /\ ValidMaxAges(occ) # {} =>
                 cookie.max_age = Some(IF n.neg \/ n.mag = "0" THEN "0" ELSE n.mag)
            /\ cookie.max_age # None => IsSeconds(Unwrap(cookie.max_age))

\* A parse whose determining Max-Age value is a negative integer.
C10_Witness ==
    /\ ParsedOk
    /\ LET occ == Occurrences(src)
       IN  /\ ValidMaxAges(occ) # {}
           /\ ParseI64(LastValue(occ, ValidMaxAges(occ))).neg
    /\ cookie.max_age = Some("0")

-----------------------------------------------------------------------------
(* Claims about the builder *)

\* What one call reports when it runs on an Ok builder: "" when it succeeds
CallFailure(c) ==
    CASE c.op = "new" ->
           IF ~validate_name(c.name) THEN "InvalidName"
           ELSE IF ~validate_value(c.text) THEN "InvalidValue" ELSE ""
      [] c.op = "value" -> IF validate_value(c.text) THEN "" ELSE "InvalidValue"
      [] c.op = "path" -> IF is_valid_path(c.text) THEN "" ELSE "InvalidPath"
      [] c.op = "domain" ->
           IF validate_domain(c.text) = "AsIs" THEN "" ELSE "InvalidDomain"
      [] OTHER -> ""

\* The calls that would fail on an Ok builder
Failing(cs) == {k \in 1..Len(cs) : CallFailure(cs[k]) # ""}

\* C3: the first validation failure of a builder chain, the seed validation
\* of Builder::new included, is the error build() returns; the steps after it
\* do not run, so they neither replace the error nor bring the builder back
\* to Ok, and a chain with no failing call builds Ok with one wrapper per
\* step.
C3_FirstFailureSticks ==
    calls # <<>> =>
        /\ IF Failing(calls) = {}
           THEN /\ state.ok
                /\ Len(state.chain) = Len(calls) - Cardinality({k \in 2..Len(calls) : calls[k].op = "wrap"})
           ELSE state = Err(CallFailure(calls[SetMin(Failing(calls))]))
        /\ built # None => Unwrap(built) = state

\* A built chain whose first failure is followed by a step that would have
\* succeeded and by a step that would have failed with another error.
C3_Witness ==
    /\ built # None
    /\ ~Unwrap(built).ok
    /\ \E k \in Failing(calls) :
         /\ k < Len(calls)
         /\ Unwrap(built).err = CallFailure(calls[k])
         /\ \E j \in (k + 1)..Len(calls) : CallFailure(calls[j]) = ""
         /\ \E j \in (k + 1)..Len(calls) :
              CallFailure(calls[j]) \notin {"", CallFailure(calls[k])}

\* The text of an attribute value as parse() reads it: whitespace trimmed
ReadByParse(a) == Trimmed(a)

\* Both the builder and parse() are done with the same text
StrictDone == built # None /\ pc = "done" /\ Len(calls) = 2

-----------------------------------------------------------------------------
(* Claims about the flags, SameSite, the stored offsets and Expires *)

\* The part of the source the attribute loop has gone through
Scanned == IF attrs.finished THEN src ELSE Slice(src, 0, attrs.pos - 1)

\* C11: at every point of the attribute loop and at the Ok return, secure
\* (resp. http_only) is true if and only if some attribute segment gone
\* through so far has the trimmed name "secure" (resp. "httponly") in any
\* letter case, with or without a value; so no later segment resets it.
C11_Flags ==
    (pc = "attrs" \/ ParsedOk) =>
        LET occ == Occurrences(Scanned)
        IN  /\ cookie.secure <=> AnyOccs(occ, "secure") # {}
            /\ cookie.http_only <=> AnyOccs(occ, "httponly") # {}

\* A parse returned Ok with secure set by a segment carrying a bogus value
\* and followed by a further, different segment.
C11_Witness ==
    /\ ParsedOk
    /\ cookie.secure
    /\ LET occ == Occurrences(src)
       IN  \E k \in AnyOccs(occ, "secure") :
             /\ occ[k].has
             /\ occ[k].value = "wat"
             /\ k < Len(occ)
             /\ ~EqIgnoreCase(occ[k + 1].name, "secure")

\* C12: same_site is Strict (resp. Lax) only if some SameSite occurrence has
\* the value "strict" (resp. "lax") in any letter case; a source within the
\* length cap with a valid first pair whose SameSite occurrences all carry
\* another value, an empty one or none parses Ok with same_site absent; and
\* same_site is never more than one of Strict and Lax.
C12_SameSite ==
    pc = "done" =>
        LET occ == Occurrences(src)
            with(x) == \E k \in Occs(occ, "samesite") : EqIgnoreCase(occ[k].value, x)
        IN  /\ ParsedOk =>
                /\ ParsedSameSite(cookie) \in {None, Some("Strict"), Some("Lax")}
                /\ ParsedSameSite(cookie) = Some("Strict") => with("strict")
                /\ ParsedSameSite(cookie) = Some("Lax") => with("lax")
                /\ ~with("strict") /\ ~with("lax") => ParsedSameSite(cookie) = None
            /\ Len(src) <= MAX_LENGTH /\ FirstPairValid(occ) /\ ~with("strict") /\ ~with("lax")
                 => result = "Ok"

\* A parse returned Ok, with same_site absent, on a source that has a
\* SameSite attribute of an unrecognised value.
C12_Witness ==
    /\ ParsedOk
    /\ ParsedSameSite(cookie) = None
    /\ LET occ == Occurrences(src)
       IN  /\ \E k \in Occs(occ, "samesite") : occ[k].value = "wat"
           /\ ValidSameSites(occ) = {}

-----------------------------------------------------------------------------
(* Claims about the delegation chain *)

StepOps == {"value", "path", "domain", "max_age", "secure", "http_only"}

\* The accessors acc with the one the call c names set to c's argument
Overridden(acc, c) ==
    CASE c.op = "value" -> [acc EXCEPT !.value = c.text]
      [] c.op = "path" -> [acc EXCEPT !.path = Some(c.text)]
      [] c.op = "domain" -> [acc EXCEPT !.domain = Some(c.text)]
      [] c.op = "max_age" -> [acc EXCEPT !.max_age = Some(c.text)]
      [] c.op = "secure" -> [acc EXCEPT !.secure = c.flag]
      [] c.op = "http_only" -> [acc EXCEPT !.http_only = c.flag]

\* A successful step on an Ok builder overrides the one accessor it names
\* and leaves every other accessor as it was.
FrameStep ==
    /\ state.ok
    /\ state'.ok
    /\ Len(calls') = Len(calls) + 1
    /\ calls'[Len(calls')].op \in StepOps
    => Accessors(state'.chain) = Overridden(Accessors(state.chain), calls'[Len(calls')])

\* The accessors of the cookie the builder started from: the pair given to
\* Builder::new, or the parsed cookie given to Builder::wrap
BaseAccessors ==
    IF calls[1].op = "new"
    THEN [name |-> calls[1].name, value |-> calls[1].text, domain |-> None, path |-> None,
          max_age |-> None, http_only |-> FALSE, secure |-> FALSE,
          same_site_strict |-> FALSE, same_site_lax |-> FALSE]
    ELSE Accessors(Unwrap(wrapped))

RECURSIVE Replayed(_, _)
\* The base accessors overridden by the steps among calls 1..k, in order
Replayed(cs, k) ==
    IF k = 1 THEN BaseAccessors
    ELSE IF cs[k].op \in StepOps THEN Overridden(Replayed(cs, k - 1), cs[k])
    ELSE Replayed(cs, k - 1)

\* On an Ok builder each accessor returns the argument of the last step for
\* its attribute, or the base cookie's value if there was none.
LastStepWins == calls # <<>> /\ state.ok => Accessors(state.chain) = Replayed(calls, Len(calls))

\* C13: each successful step on an Ok builder changes exactly the accessor it
\* names to its argument and leaves the others, name and same_site
\* included, as they were; after any sequence of successful steps each
\* accessor returns the argument of the last step for its attribute, or the
\* base cookie's value if there was none.
C13_DelegationFrame == [][FrameStep /\ LastStepWins']_vars

\* A parsed cookie with SameSite=Strict and a domain was wrapped and given
\* two different paths: the second shadows the first and the rest reads
\* through.
C13_Witness ==
    /\ state.ok
    /\ Len(calls) = 3
    /\ calls[1].op = "wrap"
    /\ calls[2].op = "path"
    /\ calls[3].op = "path"
    /\ calls[2].text # calls[3].text
    /\ BuiltPath(state.chain) = Some(calls[3].text)
    /\ BuiltSameSiteStrict(state.chain)
    /\ BuiltDomain(state.chain) = Some("hyper.rs")

-----------------------------------------------------------------------------
(* Claims about display *)

\* The parsed cookie as display sees it
ParsedAccessors == Accessors(<<ParsedCookie(src, cookie)>>)

\* The attributes display is to write for the accessors c, in order, the
\* Expires date left open
Written(c) ==
    (IF c.path # None THEN <<"Path=" \o Unwrap(c.path)>> ELSE <<>>)
      \o (IF c.domain # None THEN <<"Domain=" \o Unwrap(c.domain)>> ELSE <<>>)
      \o (IF c.max_age # None THEN <<"Max-Age=" \o Unwrap(c.max_age), "Expires=">> ELSE <<>>)
      \o (IF c.http_only THEN <<"HttpOnly">> ELSE <<>>)
      \o (IF c.secure THEN <<"Secure">> ELSE <<>>)
      \o (IF c.same_site_strict THEN <<"SameSite=Strict">>
          ELSE IF c.same_site_lax THEN <<"SameSite=Lax">> ELSE <<>>)

\* The text out is name=value followed by the attributes of Written(c),
\* each after "; ", with some date after "Expires="
InFixedOrder(out, c) ==
    LET o == Occurrences(out)
        w == Written(c)
    IN  /\ Len(o) = 1 + Len(w)
        /\ o[1].text = c.name \o "=" \o c.value
        /\ \A k \in 1..Len(w) :
             IF w[k] = "Expires="
             THEN /\ SubSeq(o[k + 1].text, 1, 9) = " Expires="
                  /\ Len(o[k + 1].text) > 9
             ELSE o[k + 1].text = " " \o w[k]

\* The place of an attribute segment in the serializer's order, 0 if the
\* segment is not written the way the serializer writes it
Rank(g) ==
    IF g.has /\ g.text = " Path=" \o g.value THEN 1
    ELSE IF g.has /\ g.text = " Domain=" \o g.value THEN 2
    ELSE IF g.text = " HttpOnly" THEN 4
    ELSE IF g.text = " Secure" THEN 5
    ELSE IF g.text \in {" SameSite=Strict", " SameSite=Lax"} THEN 6
    ELSE 0

\* The source is in the serializer's form, without Max-Age: a plain valid
\* pair, then attributes the way the serializer writes them, in its order,
\* with a path and a domain a cookie can hold
InForm(occ) ==
    /\ FirstPairValid(occ)
    /\ occ[1].text = occ[1].name \o "=" \o occ[1].value
    /\ \A k \in 2..Len(occ) :
         /\ Rank(occ[k]) > 0
         /\ k > 2 => Rank(occ[k - 1]) < Rank(occ[k])
         /\ Rank(occ[k]) = 1 => is_valid_path(occ[k].value)
         /\ Rank(occ[k]) = 2 => validate_domain(occ[k].value) # "Invalid"

\* u8::to_ascii_uppercase
Upper(c) == IF Ord(c) \in 97..122 THEN Char(PrintableLo, Ord(c) - 32 - 31) ELSE c

RECURSIVE UpperText(_)
UpperText(g) ==
    IF g = "" THEN ""
    ELSE IF Len(g) = 1 THEN Upper(g)
    ELSE UpperText(SubSeq(g, 1, Len(g) \div 2)) \o UpperText(SubSeq(g, Len(g) \div 2 + 1, Len(g)))

\* A segment with its attribute name in upper case
UpperName(g) ==
    IF HasEq(g) THEN UpperText(SubSeq(g, 1, EqPos(g) - 1)) \o SubSeq(g, EqPos(g), Len(g))
    ELSE UpperText(g)

RECURSIVE Scrambled(_, _)
\* The source with attribute segments k..Len(occ) in reverse order and their
\* names in upper case
Scrambled(occ, k) ==
    IF k > Len(occ) THEN occ[1].text
    ELSE Scrambled(occ, k + 1) \o ";" \o UpperName(occ[k].text)

\* No two attribute segments have the same name, letter case aside
DistinctNames(occ) ==
    \A j, k \in 2..Len(occ) : j # k => ~EqIgnoreCase(occ[j].name, occ[k].name)

\* The clock reading parse took, if it took one
ParseClock == IF now = None THEN 0 ELSE Unwrap(now)

\* display of the cookie parse gives for the source s, at clock reading t
Redisplayed(s, t) ==
    display(Accessors(<<ParsedCookie(s, parse(s, ParseClock).cookie)>>), t)

\* display of a cookie built from a name and a value alone is name=value
PairDisplayed ==
    \A n \in NewNames, v \in NewValues :
        NewState(n, v).ok => display(Accessors(NewState(n, v).chain), 0) = n \o "=" \o v

-----------------------------------------------------------------------------
(* Claims about Builder::wrap *)

\* C15: Builder::wrap never leaves the builder in an error state, and
\* build() right after it returns Ok with a cookie whose every accessor
\* equals that of the cookie given to wrap, parsed or built.
C15_Rewrap ==
    calls # <<>> /\ calls[Len(calls)].op = "wrap" =>
        /\ state.ok
        /\ built # None =>
             /\ Unwrap(built).ok
             /\ Accessors(Unwrap(built).chain) = Accessors(Unwrap(wrapped))

\* build() returned right after a wrap of a parsed cookie that the
\* builder's own validators would refuse (an empty domain).
C15_Witness ==
    /\ calls # <<>>
    /\ calls[Len(calls)].op = "wrap"
    /\ built # None
    /\ Unwrap(built).ok
    /\ Unwrap(wrapped)[1].kind = "Parsed"
    /\ BuiltDomain(Unwrap(built).chain) = Some("")

-----------------------------------------------------------------------------
(* Claims about the stored offsets and about Expires *)

\* The offset pair i lies within the source
Within(i) == 0 <= i[1] /\ i[1] <= i[2] /\ i[2] <= Len(src) /\ i[2] < U16Modulus

\* C16: in every cookie parse returns Ok, the source is at most 4096 bytes
\* long, each stored offset pair (name, value, and domain and path when
\* present) has start <= end <= len(source), and the text it denotes passes
\* its field's validator: validate_name, validate_value, is_valid_path, and
\* validate_domain not Invalid.
C16_ParsedInvariant ==
    ParsedOk =>
        /\ Len(src) <= MAX_LENGTH
        /\ Within(cookie.name)
        /\ validate_name(ParsedName(src, cookie))
        /\ Within(cookie.value)
        /\ validate_value(ParsedValue(src, cookie))
        /\ cookie.path # None =>
             /\ Within(Unwrap(cookie.path))
             /\ is_valid_path(Unwrap(ParsedPath(src, cookie)))
        /\ cookie.domain # None =>
             /\ Within(Unwrap(cookie.domain))
             /\ validate_domain(Unwrap(ParsedDomain(src, cookie))) # "Invalid"

\* The Expires occurrences whose date parses
ValidExpires(occ) == {k \in Occs(occ, "expires") : ParseDate(occ[k].value).ok}

\* C17: when no Max-Age is applied and Expires appears several times,
\* max_age is derived from the most recent Expires occurrence whose date
\* parses; a later occurrence with an unparseable date does not disturb it.
C17_LastValidExpires ==
    ParsedOk =>
        LET occ == Occurrences(src)
            d   == ParseDate(LastValue(occ, ValidExpires(occ)))
        IN  ValidMaxAges(occ) = {} /\ ValidExpires(occ) # {} =>
              /\ now # None
              /\ cookie.max_age =
                   Some(IF d.sec > Unwrap(now) THEN Dec(d.sec - Unwrap(now)) ELSE "0")


=============================================================================
